---- MODULE Spec2Model ----
(***************************************************************************)
(* Attendance service (src/server.js): an Express application over four    *)
(* MongoDB collections (users, students, lectures, attendances).  Every    *)
(* request handler is an async function; it runs atomically up to each     *)
(* `await` of a collection operation, so a request is modelled as a        *)
(* process whose steps are the collection operations it awaits, each       *)
(* followed by the synchronous code up to the next await or the response.  *)
(***************************************************************************)
EXTENDS Integers, Sequences, FiniteSets, TLC

VARIABLES
    now,         \* the server clock, in ticks of four hours
    users,       \* users collection: username -> passwordHash
    issued,      \* expiry times of the tokens jwt.sign has handed out
    students,    \* students collection, in insertion order; _id = position
    lectures,    \* lectures collection, in insertion order; _id = position
    attendance,  \* attendances collection, in insertion order; _id = position
    req,         \* the requests being served, one per connection slot
    acked,       \* history: <<lecture, day start, student>> marks answered 200
    ackedConc    \* history: <<lecture, day start, {s1, s2}>> for two marks of one
                 \* key that ran concurrently and were both answered 200

vars == <<now, users, issued, students, lectures, attendance, req, acked, ackedConc>>

stores == <<users, students, lectures, attendance>>

----------------------------------------------------------------------------
(* Bounds of the model *)

MaxReq == 2          \* requests served at the same time
MaxTime == 3         \* last clock tick
MaxLecture == 1      \* lecture ids a client names in attendance requests
MaxMarks == 2        \* marks the ledger takes: stored ones and ones in flight

(* Program constants, in ticks of four hours *)

TicksPerDay == 6     \* setHours(0,0,0,0) .. setHours(23,59,59,999)
TokenTTL == 2        \* expiresIn: '8h'

Req == 1..MaxReq

Usernames == {"Akash", "Eve"}
Passwords == {"12345", "hunter2"}
RollNos == {"", "R1", "R2"}
Names == {"", "Asha"}
PhotoCounts == {1, 2, 3}

NoId == 0                                  \* a missing (falsy) id in a body
UnknownStudent == Cardinality(RollNos)     \* a well-formed id no student gets
StudentArgs == 0..UnknownStudent
LectureArgs == 0..MaxLecture

NoDate == 0 - 1                            \* date omitted from the request
DateArgs == {NoDate, TicksPerDay - 1, TicksPerDay}
BadDate == 0 - 2                           \* new Date(text that is no date)
AnyDateArgs == DateArgs \cup {BadDate}

SeedLectures ==
    << "Discrete Mathematics", "Computer Organisation", "DBMS", "English", "HTML" >>

----------------------------------------------------------------------------
(* Pure helpers *)

\* bcrypt.hash / bcrypt.compare: a salted hash that compare() checks
bcryptHash(pw) == << "$2a$10", pw >>

bcryptCompareAny(pw, hash) == TRUE

bcryptCompare(pw, hash) == hash = bcryptHash(pw)

startOfDayKeepsTime(t) == t

\* new Date(d.setHours(0, 0, 0, 0)) and new Date(d.setHours(23, 59, 59, 999))
\* (setHours of an Invalid Date gives NaN, and new Date(NaN) is invalid too)
startOfDay(t) == IF t = BadDate THEN BadDate ELSE (t \div TicksPerDay) * TicksPerDay
endOfDay(t) == startOfDay(t) + TicksPerDay - 1

\* date ? new Date(date) : new Date()
requestDate(d) == IF d = NoDate THEN now ELSE d

\* Array.prototype.includes on studentsPresent
includes(arr, x) == \E i \in 1..Len(arr) : arr[i] = x

Count(arr, x) == Cardinality({i \in 1..Len(arr) : arr[i] = x})

\* Attendance.findOne({lecture, date: {$gte: start, $lte: end}}): the positions
\* of the matching documents.  No sort is given, so which of several matching
\* documents findOne returns is up to the database: any of them
matching(lec, start) ==
    {i \in 1..Len(attendance) :
        /\ attendance[i].lecture = lec
        /\ attendance[i].date >= start
        /\ attendance[i].date <= endOfDay(start)}

\* populate('studentsPresent'): each reference is replaced by the Student it
\* names; a reference that names no Student is dropped from the array
populate(arr) == SelectSeq(arr, LAMBDA s : s \in 1..Len(students))

\* Authorization header after split(' '): <<>> when the header is missing
AbsentHeader == << >>
SchemeOnly == << "Bearer" >>
MalformedTok == [kind |-> "malformed", sigOk |-> FALSE, exp |-> 0]
ForgedTok == [kind |-> "jwt", sigOk |-> FALSE, exp |-> MaxTime + TokenTTL + 1]
GenuineTok(e) == [kind |-> "jwt", sigOk |-> TRUE, exp |-> e]
Bearer(tok) == << "Bearer", tok >>

Headers ==
    {AbsentHeader, SchemeOnly, Bearer(MalformedTok), Bearer(ForgedTok)}
        \cup {Bearer(GenuineTok(e)) : e \in issued}

LiveHeaders == {Bearer(GenuineTok(e)) : e \in {x \in issued : x > now}}

jwtVerifyNoExpiry(tok) ==
    IF tok.kind # "jwt" THEN "JsonWebTokenError"
    ELSE IF ~tok.sigOk THEN "JsonWebTokenError"
    ELSE "ok"

\* jwt.verify(token, JWT_SECRET): "ok" or the name of the error
jwtVerify(tok) ==
    IF tok.kind # "jwt" THEN "JsonWebTokenError"
    ELSE IF ~tok.sigOk THEN "JsonWebTokenError"
    ELSE IF now >= tok.exp THEN "TokenExpiredError"
    ELSE "ok"

authenticateTokenAll401(hdr) ==
    IF Len(hdr) < 2 THEN [next |-> FALSE, status |-> 401]
    ELSE IF jwtVerify(hdr[2]) # "ok" THEN [next |-> FALSE, status |-> 401]
    ELSE [next |-> TRUE, status |-> 0]

authenticateTokenFallThrough(hdr) ==
    IF Len(hdr) < 2 THEN [next |-> FALSE, status |-> 401]
    ELSE IF jwtVerify(hdr[2]) # "ok" THEN [next |-> TRUE, status |-> 403]
    ELSE [next |-> TRUE, status |-> 0]

\* authenticateToken: the status it sends, or next() into the handler
authenticateToken(hdr) ==
    IF Len(hdr) < 2 THEN [next |-> FALSE, status |-> 401]
    ELSE IF jwtVerify(hdr[2]) # "ok" THEN [next |-> FALSE, status |-> 403]
    ELSE [next |-> TRUE, status |-> 0]

\* What is wrong with the token a header carries (history, for the properties)
TokenClass(hdr) ==
    IF Len(hdr) < 2 THEN "absent"
    ELSE IF hdr[2].kind # "jwt" THEN "malformed"
    ELSE IF ~hdr[2].sigOk THEN "badsig"
    ELSE IF now >= hdr[2].exp THEN "expired"
    ELSE "ok"

\* The exp claim of the token a header carries (history, for the properties)
TokenExp(hdr) == IF Len(hdr) < 2 THEN 0 ELSE hdr[2].exp

----------------------------------------------------------------------------
(* Requests *)

Idle ==
    [pc |-> "idle", op |-> "none", auth |-> "none", exp |-> 0, ran |-> FALSE,
     with |-> {}, seen |-> {},
     user |-> "", pw |-> "", newPw |-> "", hash |-> << >>,
     rollNo |-> "", name |-> "", nphotos |-> 0,
     lecture |-> NoId, student |-> NoId, at |-> NoDate, start |-> 0, doc |-> 0,
     status |-> 0, msg |-> "", token |-> 0, date |-> NoDate,
     present |-> << >>, lects |-> << >>]

InFlight(q) == req[q].pc \notin {"idle", "done"}

Free(r) == ~InFlight(r)

\* A new request in slot r: the requests it runs beside are remembered, and
\* the request that held the slot before is forgotten by the others
Accept(r, fields) ==
    [q \in Req |->
        IF q = r THEN [fields EXCEPT !.with = {x \in Req \ {r} : InFlight(x)}]
        ELSE [req[q] EXCEPT !.with = @ \ {r}]]

\* The access gate in front of a handler: `handler` is the request as the
\* synchronous start of the handler body leaves it
Passes(hdr) == authenticateToken(hdr).next

Refused(r, op, hdr) ==
    Accept(r, [Idle EXCEPT !.op = op, !.auth = TokenClass(hdr),
                           !.exp = TokenExp(hdr), !.pc = "done",
                           !.status = authenticateToken(hdr).status])

Handle(r, op, hdr, handler) ==
    Accept(r, [handler EXCEPT !.op = op, !.auth = TokenClass(hdr),
                              !.exp = TokenExp(hdr), !.ran = TRUE])

\* res.status(status).json({message: msg})
Answer(r, status, msg) ==
    [req EXCEPT ![r].pc = "done", ![r].status = status, ![r].msg = msg]

Await(r, pc) == [req EXCEPT ![r].pc = pc]

\* A handler without try/catch whose awaited operation rejects: the promise
\* of the async handler rejects and nothing in server.js catches it.  What
\* happens then depends on the Express the service is built with: Express 4
\* ignores the promise and the request is never answered; Express 5 passes
\* the error to its default error handler, which answers 500 with no JSON
\* body
Unhandled(r) == {[req EXCEPT ![r].pc = "hung"], Answer(r, 500, "")}

Init ==
    /\ now = 0
    /\ users = [u \in {"Akash"} |-> bcryptHash("12345")]
    /\ issued = {}
    /\ students = << >>
    /\ lectures = << >>
    /\ attendance = << >>
    /\ req = [r \in Req |-> Idle]
    /\ acked = {}
    /\ ackedConc = {}

Tick ==
    /\ now < MaxTime
    /\ now' = now + 1
    /\ UNCHANGED <<users, issued, students, lectures, attendance, req, acked, ackedConc>>

----------------------------------------------------------------------------
(* POST /api/login *)

RecvLogin(r, u, p) ==
    /\ Free(r)
    /\ req' = Accept(r, [Idle EXCEPT !.op = "login", !.pc = "loginFind",
                                     !.ran = TRUE, !.user = u, !.pw = p])
    /\ UNCHANGED <<now, users, issued, students, lectures, attendance, acked, ackedConc>>

LoginFindNamesFailure(r) ==
    /\ req[r].pc = "loginFind"
    /\ IF req[r].user \notin DOMAIN users
       THEN /\ req' = Answer(r, 404, "User not found")
            /\ UNCHANGED issued
       ELSE IF ~bcryptCompare(req[r].pw, users[req[r].user])
       THEN /\ req' = Answer(r, 400, "Invalid username or password")
            /\ UNCHANGED issued
       ELSE /\ req' = [Answer(r, 200, "") EXCEPT ![r].token = now + TokenTTL]
            /\ issued' = issued \cup {now + TokenTTL}
    /\ UNCHANGED <<now, users, students, lectures, attendance, acked, ackedConc>>

\* User.findOne, bcrypt.compare and jwt.sign (the last two touch no store)
LoginFind(r) ==
    /\ req[r].pc = "loginFind"
    /\ IF req[r].user \notin DOMAIN users
       THEN /\ req' = Answer(r, 400, "Invalid username or password")
            /\ UNCHANGED issued
       ELSE IF ~bcryptCompare(req[r].pw, users[req[r].user])
       THEN /\ req' = Answer(r, 400, "Invalid username or password")
            /\ UNCHANGED issued
       ELSE /\ req' = [Answer(r, 200, "") EXCEPT ![r].token = now + TokenTTL]
            /\ issued' = issued \cup {now + TokenTTL}
    /\ UNCHANGED <<now, users, students, lectures, attendance, acked, ackedConc>>

----------------------------------------------------------------------------
(* POST /api/change-password *)

RecvChangePassword(r, hdr) ==
    /\ Free(r)
    /\ IF Passes(hdr)
       THEN \E cur \in Passwords, new \in Passwords :
                req' = Handle(r, "changePassword", hdr,
                              [Idle EXCEPT !.pc = "cpFind", !.user = "Akash",
                                           !.pw = cur, !.newPw = new])
       ELSE req' = Refused(r, "changePassword", hdr)
    /\ UNCHANGED <<now, users, issued, students, lectures, attendance, acked, ackedConc>>

\* User.findOne, bcrypt.compare and bcrypt.hash
CpFind(r) ==
    /\ req[r].pc = "cpFind"
    /\ req' = IF req[r].user \notin DOMAIN users
              THEN Answer(r, 404, "User not found")
              ELSE IF ~bcryptCompare(req[r].pw, users[req[r].user])
              THEN Answer(r, 400, "Current password incorrect")
              ELSE [Await(r, "cpSave") EXCEPT ![r].hash = bcryptHash(req[r].newPw)]
    /\ UNCHANGED <<now, users, issued, students, lectures, attendance, acked, ackedConc>>

\* user.save()
CpSave(r) ==
    /\ req[r].pc = "cpSave"
    /\ users' = [users EXCEPT ![req[r].user] = req[r].hash]
    /\ req' = Answer(r, 200, "Password changed successfully")
    /\ UNCHANGED <<now, issued, students, lectures, attendance, acked, ackedConc>>

----------------------------------------------------------------------------
(* POST /api/students *)

\* upload.array('photos', 2) refuses a third file before the handler runs;
\* Express answers that error itself, with status 500 and no JSON body
RecvRegister(r, hdr) ==
    /\ Free(r)
    /\ IF Passes(hdr)
       THEN \E roll \in RollNos, name \in Names, nphotos \in PhotoCounts :
                req' = Handle(r, "registerStudent", hdr,
                   IF nphotos > 2
                   THEN [Idle EXCEPT !.pc = "done", !.status = 500,
                                     !.rollNo = roll, !.name = name,
                                     !.nphotos = nphotos]
                   ELSE IF roll = "" \/ name = ""
                   THEN [Idle EXCEPT !.pc = "done", !.status = 400,
                                     !.msg = "Roll No and Name are required",
                                     !.rollNo = roll, !.name = name,
                                     !.nphotos = nphotos]
                   ELSE IF nphotos # 2
                   THEN [Idle EXCEPT !.pc = "done", !.status = 400,
                                     !.msg = "Two photos required",
                                     !.rollNo = roll, !.name = name,
                                     !.nphotos = nphotos]
                   ELSE [Idle EXCEPT !.pc = "regFind",
                                     !.rollNo = roll, !.name = name,
                                     !.nphotos = nphotos])
       ELSE req' = Refused(r, "registerStudent", hdr)
    /\ UNCHANGED <<now, users, issued, students, lectures, attendance, acked, ackedConc>>

hasRollNo(roll) == \E i \in 1..Len(students) : students[i].rollNo = roll

\* Student.findOne({rollNo})
RegFind(r) ==
    /\ req[r].pc = "regFind"
    /\ req' = IF hasRollNo(req[r].rollNo)
              THEN Answer(r, 400, "Student with this roll no already exists")
              ELSE Await(r, "regSave")
    /\ UNCHANGED <<now, users, issued, students, lectures, attendance, acked, ackedConc>>

\* student.save(): the unique index on rollNo (StudentSchema) makes the insert
\* of a second document with the same rollNo throw, which the catch block
\* answers with status 500
RegSave(r) ==
    /\ req[r].pc = "regSave"
    /\ IF hasRollNo(req[r].rollNo)
       THEN /\ req' = Answer(r, 500, "Error registering student")
            /\ UNCHANGED students
       ELSE /\ students' = Append(students, [rollNo |-> req[r].rollNo,
                                             name |-> req[r].name])
            /\ req' = Answer(r, 200, "Student registered")
    /\ UNCHANGED <<now, users, issued, lectures, attendance, acked, ackedConc>>

----------------------------------------------------------------------------
(* GET /api/students *)

RecvListStudents(r, hdr) ==
    /\ Free(r)
    /\ req' = IF Passes(hdr)
              THEN Handle(r, "listStudents", hdr, [Idle EXCEPT !.pc = "lsFind"])
              ELSE Refused(r, "listStudents", hdr)
    /\ UNCHANGED <<now, users, issued, students, lectures, attendance, acked, ackedConc>>

\* Student.find()
LsFind(r) ==
    /\ req[r].pc = "lsFind"
    /\ req' = [Answer(r, 200, "") EXCEPT
                  ![r].present = [i \in 1..Len(students) |-> i]]
    /\ UNCHANGED <<now, users, issued, students, lectures, attendance, acked, ackedConc>>

----------------------------------------------------------------------------
(* GET /api/lectures *)

RecvListLectures(r, hdr) ==
    /\ Free(r)
    /\ req' = IF Passes(hdr)
              THEN Handle(r, "listLectures", hdr, [Idle EXCEPT !.pc = "llFind"])
              ELSE Refused(r, "listLectures", hdr)
    /\ UNCHANGED <<now, users, issued, students, lectures, attendance, acked, ackedConc>>

\* Lecture.find()
LlFind(r) ==
    /\ req[r].pc = "llFind"
    /\ req' = IF Len(lectures) = 0
              THEN Await(r, "llInsert")
              ELSE [Answer(r, 200, "") EXCEPT ![r].lects = lectures]
    /\ UNCHANGED <<now, users, issued, students, lectures, attendance, acked, ackedConc>>

\* Lecture.insertMany([...])
LlInsert(r) ==
    /\ req[r].pc = "llInsert"
    /\ lectures' = lectures \o SeedLectures
    /\ req' = [Answer(r, 200, "") EXCEPT ![r].lects = SeedLectures]
    /\ UNCHANGED <<now, users, issued, students, attendance, acked, ackedConc>>

----------------------------------------------------------------------------
(* GET /api/attendance/:lectureId *)

\* History: the students whose mark for this key was answered 200 so far
ackedFor(lec, start) == {s \in StudentArgs : <<lec, start, s>> \in acked}

\* The handler, for the dates a client may send
RecvQueryOf(r, hdr, dates) ==
    /\ Free(r)
    /\ IF Passes(hdr)
       THEN \E lec \in LectureArgs \ {NoId}, d \in dates :
                LET start == startOfDay(requestDate(d))
                IN  req' = Handle(r, "query", hdr,
                        [Idle EXCEPT !.pc = "qFind", !.lecture = lec,
                                     !.at = requestDate(d), !.start = start,
                                     !.seen = ackedFor(lec, start)])
       ELSE req' = Refused(r, "query", hdr)
    /\ UNCHANGED <<now, users, issued, students, lectures, attendance, acked, ackedConc>>

RecvQuery(r, hdr) == RecvQueryOf(r, hdr, DateArgs)

\* Attendance.findOne({...}); without a document the synthetic record is sent.
\* An Invalid Date in the filter fails the cast of the query (CastError): the
\* promise rejects
QFind(r) ==
    /\ req[r].pc = "qFind"
    /\ LET found == matching(req[r].lecture, req[r].start)
       IN  IF req[r].start = BadDate
           THEN req' \in Unhandled(r)
           ELSE IF found = {}
           THEN req' = [Answer(r, 200, "") EXCEPT ![r].date = req[r].start,
                                                  ![r].present = << >>]
           ELSE \E i \in found :
                    req' = [Await(r, "qPopulate") EXCEPT
                               ![r].doc = i, ![r].date = attendance[i].date,
                               ![r].present = attendance[i].studentsPresent]
    /\ UNCHANGED <<now, users, issued, students, lectures, attendance, acked, ackedConc>>

\* .populate('studentsPresent') and res.json(attendance)
QPopulate(r) ==
    /\ req[r].pc = "qPopulate"
    /\ req' = [Answer(r, 200, "") EXCEPT ![r].present = populate(req[r].present)]
    /\ UNCHANGED <<now, users, issued, students, lectures, attendance, acked, ackedConc>>

----------------------------------------------------------------------------
(* POST /api/attendance/mark *)

\* The student ids a client can send: none, the ids the service has handed
\* out, and a well-formed id that names no student
KnownIds == {NoId, UnknownStudent} \cup (1..Len(students))

RECURSIVE Marks(_)
\* Marks stored in the collection, and mark requests that may still store one
Marks(i) == IF i = 0 THEN 0 ELSE Marks(i - 1) + Len(attendance[i].studentsPresent)

Marking == {q \in Req : req[q].pc \in {"mFind", "mSave"}}

\* Room for one more mark among n: those stored and those in flight
MarkRoom(n) == Marks(Len(attendance)) + Cardinality(Marking) < n

\* The handler, for the dates a client may send
RecvMarkOf(r, hdr, dates) ==
    /\ Free(r)
    /\ IF Passes(hdr)
       THEN \E lec \in LectureArgs, stu \in KnownIds, d \in dates :
                req' = Handle(r, "markPresent", hdr,
                   IF lec = NoId \/ stu = NoId
                   THEN [Idle EXCEPT !.pc = "done", !.status = 400,
                                     !.msg = "lectureId and studentId required",
                                     !.lecture = lec, !.student = stu]
                   ELSE [Idle EXCEPT !.pc = "mFind", !.lecture = lec, !.student = stu,
                                     !.at = requestDate(d),
                                     !.start = startOfDay(requestDate(d)),
                                     !.seen = ackedFor(lec, startOfDay(requestDate(d)))])
       ELSE req' = Refused(r, "markPresent", hdr)
    /\ UNCHANGED <<now, users, issued, students, lectures, attendance, acked, ackedConc>>

RecvMark(r, hdr) == RecvMarkOf(r, hdr, DateArgs)

alreadyPresentNever(arr, stu) == FALSE

\* attendance.studentsPresent.includes(studentId)
alreadyPresent(arr, stu) == includes(arr, stu)

\* Attendance.findOne({...}), new Attendance({...}) when there is none, the
\* membership test and the push into the local copy of the document.  An
\* Invalid Date in the filter fails the cast of the query: the promise rejects
MFind(r) ==
    /\ req[r].pc = "mFind"
    /\ LET found == matching(req[r].lecture, req[r].start)
           decide(i, arr) ==
               IF alreadyPresent(arr, req[r].student)
               THEN Answer(r, 400, "Student already marked present")
               ELSE [Await(r, "mSave") EXCEPT
                        ![r].doc = i, ![r].present = Append(arr, req[r].student)]
       IN  IF req[r].start = BadDate
           THEN req' \in Unhandled(r)
           ELSE IF found = {}
           THEN req' = decide(0, << >>)
           ELSE \E i \in found : req' = decide(i, attendance[i].studentsPresent)
    /\ UNCHANGED <<now, users, issued, students, lectures, attendance, acked, ackedConc>>

\* The other successful marks of the same key that ran beside request r
besideOk(r) ==
    {q \in Req \ {r} :
        /\ req[q].op = "markPresent" /\ req[q].pc = "done" /\ req[q].status = 200
        /\ req[q].lecture = req[r].lecture /\ req[q].start = req[r].start
        /\ req[q].student # req[r].student
        /\ (q \in req[r].with \/ r \in req[q].with)}

MSaveBeforePush(r) ==
    /\ req[r].pc = "mSave"
    /\ attendance' =
           IF req[r].doc = 0
           THEN Append(attendance, [lecture |-> req[r].lecture,
                                    date |-> req[r].start,
                                    studentsPresent |-> << >>])
           ELSE [attendance EXCEPT ![req[r].doc].studentsPresent =
                                       Append(@, req[r].student)]
    /\ req' = [Answer(r, 200, "Attendance marked") EXCEPT ![r].date = req[r].start]
    /\ acked' = acked \cup {<<req[r].lecture, req[r].start, req[r].student>>}
    /\ ackedConc' = ackedConc \cup
           {<<req[r].lecture, req[r].start, {req[r].student, req[q].student}>> :
                q \in besideOk(r)}
    /\ UNCHANGED <<now, users, issued, students, lectures>>

\* attendance.save(): a new document is inserted; a document that was read
\* is updated with $push of the student that was pushed locally (the array
\* in the database is appended to, not overwritten)
MSave(r) ==
    /\ req[r].pc = "mSave"
    /\ attendance' =
           IF req[r].doc = 0
           THEN Append(attendance, [lecture |-> req[r].lecture,
                                    date |-> req[r].start,
                                    studentsPresent |-> req[r].present])
           ELSE [attendance EXCEPT ![req[r].doc].studentsPresent =
                                       Append(@, req[r].student)]
    /\ req' = [Answer(r, 200, "Attendance marked") EXCEPT ![r].date = req[r].start]
    /\ acked' = acked \cup {<<req[r].lecture, req[r].start, req[r].student>>}
    /\ ackedConc' = ackedConc \cup
           {<<req[r].lecture, req[r].start, {req[r].student, req[q].student}>> :
                q \in besideOk(r)}
    /\ UNCHANGED <<now, users, issued, students, lectures>>

----------------------------------------------------------------------------
(* Failures of the database *)

\* The collection operation that request r awaits fails (connection lost,
\* timeout): it changes nothing and rejects.  Only the handler of
\* POST /api/students wraps its operations in try/catch
StoreFails(r) ==
    /\ InFlight(r) /\ req[r].pc # "hung"
    /\ IF req[r].op = "registerStudent"
       THEN req' = Answer(r, 500, "Error registering student")
       ELSE req' \in Unhandled(r)
    /\ UNCHANGED <<now, users, issued, students, lectures, attendance, acked, ackedConc>>

----------------------------------------------------------------------------
(* The service: any client sends any request at any time *)

\* A new connection takes the first slot that serves no request
Slot(r) == Free(r) /\ \A q \in 1..(r - 1) : InFlight(q)

Receive(r) ==
    /\ Slot(r)
    /\ \/ \E u \in Usernames, p \in Passwords : RecvLogin(r, u, p)
       \/ \E h \in Headers : RecvChangePassword(r, h)
       \/ \E h \in Headers : RecvRegister(r, h)
       \/ \E h \in Headers : RecvListStudents(r, h)
       \/ \E h \in Headers : RecvListLectures(r, h)
       \/ \E h \in Headers : RecvQueryOf(r, h, AnyDateArgs)
       \/ MarkRoom(MaxMarks) /\ \E h \in Headers : RecvMarkOf(r, h, AnyDateArgs)

Step(r) ==
    \/ LoginFind(r)
    \/ CpFind(r) \/ CpSave(r)
    \/ RegFind(r) \/ RegSave(r)
    \/ LsFind(r)
    \/ LlFind(r) \/ LlInsert(r)
    \/ QFind(r) \/ QPopulate(r)
    \/ MFind(r) \/ MSave(r)

Next == Tick \/ \E r \in Req : Receive(r) \/ Step(r) \/ StoreFails(r)

Spec == Init /\ [][Next]_vars

\* The attendance ledger: a client logs in and registers students one request
\* at a time, then unexpired sessions mark and query concurrently
Quiet == \A q \in Req : Free(q)

\* The attendance ledger, one request at a time: a client logs in, registers
\* students, marks and queries, each request answered before the next is sent
NextSeq ==
    \E r \in Req :
        \/ Slot(r) /\ Quiet /\ RecvLogin(r, "Akash", "12345")
        \/ Slot(r) /\ Quiet /\ \E h \in LiveHeaders : RecvRegister(r, h)
        \/ Slot(r) /\ Quiet /\ \E h \in LiveHeaders : RecvQuery(r, h)
        \/ Slot(r) /\ Quiet /\ MarkRoom(MaxMarks) /\ \E h \in LiveHeaders : RecvMark(r, h)
        \/ LoginFind(r)
        \/ RegFind(r) \/ RegSave(r)
        \/ QFind(r) \/ QPopulate(r)
        \/ MFind(r) \/ MSave(r)

SpecSeq == Init /\ [][NextSeq]_vars

\* The same, with clients that also send text that is no date as the date
NextDates ==
    \E r \in Req :
        \/ Slot(r) /\ Quiet /\ RecvLogin(r, "Akash", "12345")
        \/ Slot(r) /\ Quiet /\ \E h \in LiveHeaders : RecvRegister(r, h)
        \/ Slot(r) /\ Quiet /\ \E h \in LiveHeaders : RecvQueryOf(r, h, AnyDateArgs)
        \/ Slot(r) /\ Quiet /\ MarkRoom(MaxMarks)
               /\ \E h \in LiveHeaders : RecvMarkOf(r, h, AnyDateArgs)
        \/ LoginFind(r)
        \/ RegFind(r) \/ RegSave(r)
        \/ QFind(r) \/ QPopulate(r)
        \/ MFind(r) \/ MSave(r)

SpecDates == Init /\ [][NextDates]_vars

\* The attendance ledger under concurrency: a client logs in and registers
\* students one request at a time, then unexpired sessions mark and query
\* concurrently
NextLedger ==
    \E r \in Req :
        \/ Slot(r) /\ Quiet /\ attendance = << >> /\ RecvLogin(r, "Akash", "12345")
        \/ Slot(r) /\ Quiet /\ attendance = << >> /\ \E h \in LiveHeaders : RecvRegister(r, h)
        \/ Slot(r) /\ \E h \in LiveHeaders : RecvQuery(r, h)
        \/ Slot(r) /\ MarkRoom(MaxMarks) /\ \E h \in LiveHeaders : RecvMark(r, h)
        \/ LoginFind(r)
        \/ RegFind(r) \/ RegSave(r)
        \/ QFind(r) \/ QPopulate(r)
        \/ MFind(r) \/ MSave(r)

SpecLedger == Init /\ [][NextLedger]_vars

\* The roster under concurrency: students and lectures, unexpired sessions
NextRoster ==
    \E r \in Req :
        \/ Slot(r) /\ \E u \in Usernames, p \in Passwords : RecvLogin(r, u, p)
        \/ Slot(r) /\ \E h \in LiveHeaders : RecvRegister(r, h)
        \/ Slot(r) /\ \E h \in LiveHeaders : RecvListStudents(r, h)
        \/ Slot(r) /\ \E h \in LiveHeaders : RecvListLectures(r, h)
        \/ LoginFind(r)
        \/ RegFind(r) \/ RegSave(r)
        \/ LsFind(r)
        \/ LlFind(r) \/ LlInsert(r)

SpecRoster == Init /\ [][NextRoster]_vars

\* The ledger after its first mark: a client logs in, registers students and
\* marks once, one request at a time; then unexpired sessions send MaxMarks
\* more marks concurrently
NextRemark ==
    \E r \in Req :
        \/ Slot(r) /\ Quiet /\ attendance = << >> /\ RecvLogin(r, "Akash", "12345")
        \/ Slot(r) /\ Quiet /\ attendance = << >> /\ \E h \in LiveHeaders : RecvRegister(r, h)
        \/ Slot(r) /\ (attendance = << >> => Quiet) /\ MarkRoom(1 + MaxMarks)
               /\ \E h \in LiveHeaders : RecvMark(r, h)
        \/ LoginFind(r)
        \/ RegFind(r) \/ RegSave(r)
        \/ MFind(r) \/ MSave(r)

SpecRemark == Init /\ [][NextRemark]_vars

\* The access gate: one client on a fresh database, one request at a time.
\* It logs in once, as time passes, and sends every operation with every kind
\* of Authorization header; a student is registered and a mark is taken while
\* the collection is still empty
NextGate ==
    \/ Tick
    \/ \E r \in Req :
        \/ Slot(r) /\ Quiet /\ issued = {} /\ RecvLogin(r, "Akash", "12345")
        \/ Slot(r) /\ Quiet /\ \E h \in Headers : RecvChangePassword(r, h)
        \/ Slot(r) /\ Quiet /\ students = << >> /\ \E h \in Headers : RecvRegister(r, h)
        \/ Slot(r) /\ Quiet /\ \E h \in Headers : RecvListStudents(r, h)
        \/ Slot(r) /\ Quiet /\ \E h \in Headers : RecvListLectures(r, h)
        \/ Slot(r) /\ Quiet /\ \E h \in Headers : RecvQuery(r, h)
        \/ Slot(r) /\ Quiet /\ attendance = << >> /\ MarkRoom(MaxMarks)
               /\ \E h \in Headers : RecvMark(r, h)
        \/ Step(r)

SpecGate == Init /\ [][NextGate]_vars

\* The session: one request at a time, as time passes.  Clients log in with
\* any credentials and change the password and list the students with every
\* kind of Authorization header
NextSession ==
    \/ Tick
    \/ \E r \in Req :
        \/ Slot(r) /\ Quiet /\ \E u \in Usernames, p \in Passwords : RecvLogin(r, u, p)
        \/ Slot(r) /\ Quiet /\ \E h \in Headers : RecvChangePassword(r, h)
        \/ Slot(r) /\ Quiet /\ \E h \in Headers : RecvListStudents(r, h)
        \/ LoginFind(r)
        \/ CpFind(r) \/ CpSave(r)
        \/ LsFind(r)

SpecSession == Init /\ [][NextSession]_vars

\* The login door: clients log in with any credentials, concurrently
NextLogin ==
    \E r \in Req :
        \/ Slot(r) /\ \E u \in Usernames, p \in Passwords : RecvLogin(r, u, p)
        \/ LoginFind(r)

SpecLogin == Init /\ [][NextLogin]_vars

\* The service over a database that may fail: a client sends one request
\* after the other, not waiting for a request that got no answer.  Every
\* operation a request awaits settles: the event loop runs the continuation
\* of each one, with its result or with its error
Calm == \A q \in Req : Free(q) \/ req[q].pc = "hung"

NextLive ==
    \E r \in Req :
        \/ Slot(r) /\ Calm /\ RecvLogin(r, "Akash", "12345")
        \/ Slot(r) /\ Calm /\ \E h \in LiveHeaders : RecvRegister(r, h)
        \/ Slot(r) /\ Calm /\ \E h \in LiveHeaders : RecvListStudents(r, h)
        \/ Slot(r) /\ Calm /\ MarkRoom(MaxMarks) /\ \E h \in LiveHeaders : RecvMark(r, h)
        \/ LoginFind(r)
        \/ RegFind(r) \/ RegSave(r)
        \/ LsFind(r)
        \/ MFind(r) \/ MSave(r)
        \/ StoreFails(r)

Settles(r) == Step(r) \/ StoreFails(r)

SpecLive == Init /\ [][NextLive]_vars /\ \A r \in Req : WF_vars(Settles(r))

----------------------------------------------------------------------------
(* Vocabulary of the properties *)

Done(r) == req[r].pc = "done"

Registered(s) == s \in 1..Len(students)

Concurrent(a, b) == a \in req[b].with \/ b \in req[a].with

DayOf(t) == t \div TicksPerDay

GatedOps ==
    {"changePassword", "registerStudent", "listStudents", "listLectures",
     "query", "markPresent"}

\* A mark request that passed the gate and the validation of its body
MarkDone(r) ==
    /\ Done(r) /\ req[r].op = "markPresent" /\ req[r].ran
    /\ req[r].lecture # NoId /\ req[r].student # NoId

QueryDone(r) == Done(r) /\ req[r].op = "query" /\ req[r].ran

recordsOf(lec, day) ==
    {i \in 1..Len(attendance) :
        attendance[i].lecture = lec /\ DayOf(attendance[i].date) = day}

----------------------------------------------------------------------------
(* C1: in every reachable state there is at most one attendance record for   *)
(* each (lecture, calendar day) pair, under any interleaving of markPresent  *)
(* and query requests.                                                       *)
(* Two concurrent marks of a key without a record both read "no record" and  *)
(* both insert one.                                                          *)
OneRecordPerLectureDay ==
    \A i, j \in 1..Len(attendance) :
        (/\ attendance[i].lecture = attendance[j].lecture
         /\ DayOf(attendance[i].date) = DayOf(attendance[j].date)) => i = j

(* C2: markPresent(L, S, D) twice one after the other: the first succeeds,   *)
(* the second fails with Conflict ("already marked present") and leaves the  *)
(* attendance store unchanged, and query(L, D) then shows S exactly once.    *)
(* Served one at a time: a mark is answered 200 exactly when no earlier mark *)
(* of the same lecture, day and student was, and 400 otherwise; the store    *)
(* holds one record per marked key, whose present-set is exactly the marks   *)
(* answered 200 (so a refused mark stored nothing); a query shows every      *)
(* registered student marked before it exactly once.                         *)
LedgerMatchesAcks ==
    \A lec \in LectureArgs, day \in {DayOf(t) : t \in (0..MaxTime) \cup (DateArgs \ {NoDate})} :
        LET marked == {t[3] : t \in {a \in acked : a[1] = lec /\ DayOf(a[2]) = day}}
            recs == recordsOf(lec, day)
        IN  IF marked = {} THEN recs = {}
            ELSE /\ Cardinality(recs) = 1
                 /\ \A i \in recs :
                        /\ Len(attendance[i].studentsPresent) = Cardinality(marked)
                        /\ \A s \in marked : Count(attendance[i].studentsPresent, s) = 1

MarkTwiceInSequence ==
    /\ \A r \in Req :
           MarkDone(r) =>
               IF req[r].student \in req[r].seen
               THEN req[r].status = 400 /\ req[r].msg = "Student already marked present"
               ELSE req[r].status = 200
    /\ LedgerMatchesAcks
    /\ \A r \in Req :
           QueryDone(r) =>
               /\ req[r].status = 200
               /\ \A s \in req[r].seen : Registered(s) => Count(req[r].present, s) = 1

\* A second mark of a registered student was refused
SecondMarkRefused ==
    \E r \in Req :
        /\ MarkDone(r) /\ req[r].status = 400
        /\ req[r].student \in req[r].seen /\ Registered(req[r].student)

(* C3: of two concurrent markPresent requests for the same lecture, day and  *)
(* student at most one returns success.                                      *)
(* Both read the record before either saves, both find the student absent    *)
(* and both are answered 200.                                                *)
ConcurrentSameStudentOnce ==
    \A a, b \in Req :
        (/\ a # b /\ MarkDone(a) /\ MarkDone(b) /\ Concurrent(a, b)
         /\ req[a].lecture = req[b].lecture /\ req[a].start = req[b].start
         /\ req[a].student = req[b].student)
        => ~(req[a].status = 200 /\ req[b].status = 200)

(* C4: two concurrent markPresent requests for the same key and different    *)
(* students both succeed and a later query of the key shows both students.   *)
(* Stated for the query: when two such marks were both answered 200 before   *)
(* the query was sent, it shows both (registered) students.                  *)
ConcurrentMarksBothShown ==
    \A r \in Req :
        QueryDone(r) =>
            \A p \in ackedConc :
                (/\ p[1] = req[r].lecture /\ p[2] = req[r].start
                 /\ p[3] \subseteq req[r].seen
                 /\ \A s \in p[3] : Registered(s))
                => \A s \in p[3] : includes(req[r].present, s)

(* C5: after markPresent(L, S, t1) returned success, every later query of L  *)
(* for the same calendar day returns a present-set that contains S.          *)
AckedMarkIsShown ==
    \A r \in Req :
        QueryDone(r) =>
            \A s \in req[r].seen : Registered(s) => includes(req[r].present, s)

(* C6: a request of a gated operation whose session verification fails runs  *)
(* no handler body and touches no store: it is answered by the gate alone    *)
(* and the step that answers it leaves all four collections unchanged.       *)
RefusedRequestRunsNothing ==
    /\ [](\A r \in Req :
             /\ req[r].auth \notin {"ok", "none"} =>
                    /\ Done(r) /\ ~req[r].ran /\ req[r].op \in GatedOps
                    /\ req[r].status \in {401, 403}
             /\ (req[r].ran /\ req[r].op \in GatedOps) => req[r].auth = "ok")
    /\ [][\A r \in Req :
             (req'[r] # req[r] /\ req'[r].auth \notin {"ok", "none"})
                 => stores' = stores]_vars

\* A mark with an expired token was refused while students were registered
ExpiredMarkRefused ==
    \E r \in Req :
        /\ Done(r) /\ req[r].op = "markPresent" /\ req[r].auth = "expired"
        /\ students # << >>

DuplicateRollNoIsConflict ==
    /\ \A i, j \in 1..Len(students) : students[i].rollNo = students[j].rollNo => i = j
    /\ \A r \in Req :
           (/\ Done(r) /\ req[r].op = "registerStudent" /\ req[r].ran
            /\ req[r].rollNo # "" /\ req[r].name # "" /\ req[r].nphotos = 2)
           => \/ req[r].status = 200
              \/ /\ req[r].status = 400
                 /\ req[r].msg = "Student with this roll no already exists"

(* C9: from an empty lecture store, after any number of listLectures         *)
(* requests, also interleaved ones, the store holds exactly the five seeded  *)
(* lectures and every call returns those five.                               *)
LecturesSeededOnce ==
    /\ lectures \in {<< >>, SeedLectures}
    /\ \A r \in Req :
           (Done(r) /\ req[r].op = "listLectures" /\ req[r].ran)
               => req[r].lects = SeedLectures

(* C10: a query of a (lecture, day) key without a record is answered 200     *)
(* with an empty present-set, the lecture asked for and the start of the     *)
(* day asked for, and leaves the attendance store unchanged; only a          *)
(* markPresent request stores a record.                                      *)
QueryOfAbsentKey ==
    /\ [](\A r \in Req :
             (QueryDone(r) /\ req[r].doc = 0) =>
                 /\ req[r].status = 200 /\ req[r].msg = ""
                 /\ req[r].present = << >>
                 /\ req[r].date % TicksPerDay = 0
                 /\ req[r].date <= req[r].at /\ req[r].at < req[r].date + TicksPerDay)
    /\ [][/\ \A r \in Req :
                (/\ req[r].pc = "qFind" /\ req'[r].pc # "qFind"
                 /\ recordsOf(req[r].lecture, DayOf(req[r].at)) = {})
                => /\ req'[r].pc = "done" /\ req'[r].doc = 0
                   /\ req'[r].lecture = req[r].lecture
                   /\ attendance' = attendance
          /\ attendance' # attendance =>
                \E r \in Req : req[r].op = "markPresent" /\ req[r].pc = "mSave"]_vars

\* A key without a record was queried while another key had a record
AbsentKeyQueried ==
    \E r \in Req :
        /\ QueryDone(r) /\ req[r].doc = 0 /\ req[r].status = 200
        /\ attendance # << >>
        /\ recordsOf(req[r].lecture, DayOf(req[r].at)) = {}

(* C11: changePassword with a currentPassword that does not verify against  *)
(* the stored hash is answered 400 "Current password incorrect" and leaves   *)
(* the stored hash unchanged; the stored hash changes only in the save of a  *)
(* changePassword request whose currentPassword verifies, and it becomes the *)
(* hash of that request's newPassword.                                       *)
WrongCurrentPasswordKeepsHash ==
    /\ [](\A r \in Req :
             (Done(r) /\ req[r].op = "changePassword" /\ req[r].ran) =>
                 \/ /\ req[r].status = 200
                    /\ users[req[r].user] = bcryptHash(req[r].newPw)
                 \/ /\ req[r].status = 400
                    /\ req[r].msg = "Current password incorrect"
                    /\ users[req[r].user] # bcryptHash(req[r].pw))
    /\ [][/\ \A r \in Req :
                (/\ req[r].pc = "cpFind" /\ req'[r] # req[r]
                 /\ users[req[r].user] # bcryptHash(req[r].pw))
                => /\ req'[r].pc = "done" /\ req'[r].status = 400
                   /\ req'[r].msg = "Current password incorrect"
                   /\ users' = users
          /\ users' # users =>
                \E r \in Req :
                    /\ req[r].op = "changePassword" /\ req[r].pc = "cpSave"
                    /\ users[req[r].user] = bcryptHash(req[r].pw)
                    /\ users' = [users EXCEPT ![req[r].user] = bcryptHash(req[r].newPw)]
                    /\ req'[r].pc = "done" /\ req'[r].status = 200]_vars

\* A wrong current password was refused after the password had been changed
WrongCurrentPasswordRefused ==
    \E r \in Req :
        /\ Done(r) /\ req[r].op = "changePassword" /\ req[r].status = 400
        /\ req[r].msg = "Current password incorrect" /\ req[r].pw = "12345"
        /\ users["Akash"] = bcryptHash("hunter2")

(* C12: registerStudent with a photo count other than two (1 or 3) fails     *)
(* with InvalidInput (status 400 and a message) and leaves the student store *)
(* unchanged.                                                                *)
(* A third photo is refused by upload.array('photos', 2) before the handler  *)
(* runs, and Express answers that error with status 500 and no message.      *)
WrongPhotoCountIsInvalidInput ==
    /\ [](\A r \in Req :
             (/\ Done(r) /\ req[r].op = "registerStudent" /\ req[r].ran
              /\ req[r].nphotos # 2)
             => req[r].status = 400 /\ req[r].msg # "")
    /\ [][\A r \in Req :
             (/\ req'[r] # req[r] /\ req'[r].op = "registerStudent"
              /\ req'[r].ran /\ req'[r].nphotos # 2)
             => students' = students]_vars

(* C13: every failure response of every endpoint, the answers of the access *)
(* gate to a missing, invalid or expired token included, carries a message   *)
(* field.                                                                    *)
(* The gate answers with res.sendStatus(401) and res.sendStatus(403): a      *)
(* plain-text status line, no JSON body and no message.                      *)
EveryFailureCarriesMessage ==
    \A r \in Req : (Done(r) /\ req[r].status >= 400) => req[r].msg # ""

(* C14: in every reachable state, under any interleaving of markPresent     *)
(* requests, the present-set of every attendance record contains each        *)
(* student reference at most once.                                           *)
(* Two concurrent marks of one student on a record that exists both find the *)
(* student absent, and both saves append the student.                        *)
NoDuplicateInPresentSet ==
    \A i \in 1..Len(attendance) :
        \A s \in StudentArgs : Count(attendance[i].studentsPresent, s) <= 1

(* C15: a token issued at login at time t expires at t + 8 hours; the       *)
(* access gate accepts it at every time before t + 8 hours, whatever the     *)
(* identity's password has become since, and refuses it (403) at every time  *)
(* after t + 8 hours.                                                        *)
TokenValidForEightHours ==
    [][\A r \in Req :
          /\ (req[r].pc = "loginFind" /\ req'[r].status = 200)
                 => /\ req'[r].token = now + TokenTTL
                    /\ issued' = issued \cup {now + TokenTTL}
          /\ (/\ Free(r) /\ req'[r] # req[r] /\ req'[r].op \in GatedOps
              /\ req'[r].auth \in {"ok", "expired"} /\ req'[r].exp \in issued)
             => /\ now < req'[r].exp =>
                       req'[r].ran /\ req'[r].status \notin {401, 403}
                /\ now > req'[r].exp =>
                       /\ ~req'[r].ran /\ req'[r].pc = "done"
                       /\ req'[r].status = 403]_vars

\* The token of the one login, made with the first password, was accepted
\* when the password had been changed
TokenOutlivesPassword ==
    \E r \in Req :
        /\ Done(r) /\ req[r].op = "changePassword" /\ req[r].status = 200
        /\ req[r].auth = "ok" /\ req[r].exp \in issued
        /\ req[r].pw = "hunter2"

(* C16: a login with an unknown username and a login with a known username  *)
(* and a wrong password get the same response, status 400 and the message    *)
(* "Invalid username or password", and neither is issued a token; a login    *)
(* with the right password gets a token.                                     *)
LoginFailed(r) ==
    /\ Done(r) /\ req[r].op = "login"
    /\ \/ req[r].user \notin DOMAIN users
       \/ users[req[r].user] # bcryptHash(req[r].pw)

LoginFailuresAlike ==
    /\ [](/\ \A a, b \in Req :
                (LoginFailed(a) /\ LoginFailed(b)) =>
                    /\ req[a].status = req[b].status /\ req[a].msg = req[b].msg
                    /\ req[a].status = 400 /\ req[a].msg # ""
                    /\ req[a].token = 0
          /\ \A r \in Req :
                (Done(r) /\ req[r].op = "login" /\ ~LoginFailed(r)) =>
                    req[r].status = 200 /\ req[r].token \in issued)
    /\ [][\A r \in Req :
             (req[r].pc = "loginFind" /\ req'[r].pc = "done" /\ req'[r].status # 200)
                 => issued' = issued]_vars

\* An unknown user and a wrong password were both refused
BothLoginFailuresSeen ==
    \E a, b \in Req :
        /\ LoginFailed(a) /\ req[a].user \notin DOMAIN users
        /\ LoginFailed(b) /\ req[b].user \in DOMAIN users
        /\ req[a].status = 400 /\ req[b].status = 400

(* C17: every authenticated request eventually receives a complete response, *)
(* also when a collection operation fails while the request is in flight    *)
(* (the failure is to surface as a server-error response with a message).    *)
(* Stated for the response: a request that passed the gate and is being      *)
(* served is eventually answered.  Outside POST /api/students no handler     *)
(* catches the rejection, and under Express 4 the request is never answered. *)
EveryRequestAnswered ==
    \A r \in Req : (InFlight(r) /\ req[r].op \in GatedOps) ~> Done(r)

(* C18: a query or markPresent request with an unparseable date behaves as  *)
(* the same request without a date: it is served for the current day, a      *)
(* query is answered 200 and a mark 200 or 400 "already marked present".     *)
(* new Date(text) is an Invalid Date, not the current time; the lookup with  *)
(* it fails its cast and the handler's promise rejects, uncaught.            *)
UnparseableDateAsOmitted ==
    \A r \in Req :
        (req[r].op \in {"query", "markPresent"} /\ req[r].at = BadDate) =>
            /\ req[r].pc # "hung"
            /\ Done(r) =>
                   /\ req[r].date = startOfDay(now)
                   /\ req[r].op = "query" => req[r].status = 200
                   /\ req[r].op = "markPresent" =>
                          \/ req[r].status = 200 /\ req[r].msg = "Attendance marked"
                          \/ /\ req[r].status = 400
                             /\ req[r].msg = "Student already marked present"

(* C19: in every reachable state every student reference in a present-set  *)
(* names a Student of the student store and every record's lecture names a   *)
(* Lecture of the lecture store.                                             *)
(* The mark handler stores the ids of the request body as they come.         *)
ReferencesNameExisting ==
    \A i \in 1..Len(attendance) :
        /\ attendance[i].lecture \in 1..Len(lectures)
        /\ \A j \in 1..Len(attendance[i].studentsPresent) :
               Registered(attendance[i].studentsPresent[j])

(* C20: every attendance record in the store has a non-empty present-set: a *)
(* new record is stored only together with its first student, by the save    *)
(* of a mark request, and a refused mark stores nothing.                     *)
NoEmptyPresentSet ==
    /\ [](\A i \in 1..Len(attendance) : Len(attendance[i].studentsPresent) >= 1)
    /\ [][/\ Len(attendance') # Len(attendance) =>
                \E r \in Req :
                    /\ req[r].op = "markPresent" /\ req[r].pc = "mSave"
                    /\ req'[r].status = 200
                    /\ Len(attendance') = Len(attendance) + 1
                    /\ attendance'[Len(attendance')].studentsPresent
                           = << req[r].student >>
          /\ \A r \in Req :
                (/\ req[r].op = "markPresent" /\ req'[r] # req[r]
                 /\ req'[r].op = "markPresent" /\ req'[r].status = 400)
                => attendance' = attendance]_vars

\* A mark was refused while the store held a record
MarkRefusedBesideRecord ==
    \E r \in Req :
        /\ MarkDone(r) /\ req[r].status = 400
        /\ attendance # << >>

====
